---- MODULE Spec2Model ----
(***************************************************************************)
(* mpi_hypercube: a distributor (rank 0) scans numeric entities from an    *)
(* input file and hands one to each worker; the workers run a hypercube    *)
(* exchange computing the maximum and send it back to the distributor.     *)
(*                                                                         *)
(* One process per rank.  Every MPI call of the program is one step of its *)
(* process; the local computation between two MPI calls belongs to the     *)
(* step of the call that follows or ends it.                               *)
(***************************************************************************)
EXTENDS Integers, Sequences, FiniteSets, TLC

\* ------------------------------------------------------------------ bounds
\* Largest digit used for the well-formed input files of Init.
MaxVal == 2
\* Number of digits kept after the decimal point by the value representation
\* (a value v is represented by the integer v * 10^FracDigits).
FracDigits == 1
\* Largest number of entries (token + separator) of the irregular input files.
MaxItems == 5
\* Largest number of those entries that are not a plain number on a line.
MaxOdd == 1
\* Largest group size of the configurations of InitCfg.
MaxSize == 6
\* Number of MPI calls that may return an error code in a run of InitFault.
MaxFaults == 1
\* Largest cube dimension for which get_neighbors is examined as a function.
MaxCubeDim == 3

\* ------------------------------------------------------- program constants
DISTRIB_RANK == 0
TAG_FINAL_RESULT == 42
\* tag of MPI_Bsend(..., 0, MPI_COMM_WORLD) in perform_distribution/do_work
TAG_DATA == 0
MPI_SUCCESS == 0
\* any error class other than MPI_SUCCESS
MPI_ERR_OTHER == MPI_SUCCESS + 1
\* <mpi.h>; wildcard source of MPI_Recv, the number of no rank
MPI_ANY_SOURCE == -1
\* <limits.h>, int of 32 bits
INT_MAX == 2147483647
INT_MIN == (0 - INT_MAX) - 1
\* <stdio.h>; size of item_buf
BUFSIZ == 8192

\* ------------------------------------------------------------- characters
DigitChars == <<"0", "1", "2", "3", "4", "5", "6", "7", "8", "9">>

IsDigit(c) == \E d \in 1..10 : DigitChars[d] = c

DigitVal(c) == (CHOOSE d \in 1..10 : DigitChars[d] = c) - 1

is_numeric_char(c) == IsDigit(c) \/ c = "." \/ c = "-"

RECURSIVE Pow(_, _)
Pow(b, e) == IF e = 0 THEN 1 ELSE b * Pow(b, e - 1)

Scale == Pow(10, FracDigits)

\* Number of consecutive digits of s starting at position p.
RECURSIVE DigitRun(_, _)
DigitRun(s, p) ==
    IF p <= Len(s) /\ IsDigit(s[p]) THEN 1 + DigitRun(s, p + 1) ELSE 0

\* Decimal value of the digits s[p .. p+len-1].
RECURSIVE DigitsValue(_, _, _)
DigitsValue(s, p, len) ==
    IF len = 0 THEN 0
    ELSE 10 * DigitsValue(s, p, len - 1) + DigitVal(s[p + len - 1])

\* Value of the digits s[p .. p+len-1] read as a decimal fraction, in units of
\* 10^-FracDigits (digits beyond FracDigits are dropped).
RECURSIVE FracValue(_, _, _, _)
FracValue(s, p, len, unit) ==
    IF len = 0 \/ unit = 0 THEN 0
    ELSE DigitVal(s[p]) * unit + FracValue(s, p + 1, len - 1, unit \div 10)

(***************************************************************************)
(* strtod(item_buf, &endptr) on a string of digits, '.' and '-': the       *)
(* longest prefix of the form [-]digits[.digits] holding at least one      *)
(* digit is converted.  end is the number of characters converted (endptr  *)
(* - item_buf); when nothing is converted the result is 0 and endptr is    *)
(* item_buf itself.                                                        *)
(***************************************************************************)
strtod(s) ==
    LET neg == Len(s) >= 1 /\ s[1] = "-"
        p0  == IF neg THEN 2 ELSE 1
        ni  == DigitRun(s, p0)
        dot == p0 + ni <= Len(s) /\ s[p0 + ni] = "."
        nf  == IF dot THEN DigitRun(s, p0 + ni + 1) ELSE 0
        mag == DigitsValue(s, p0, ni) * Scale
                 + FracValue(s, p0 + ni + 1, nf, Scale \div 10)
    IN  IF ni + nf = 0
        THEN [val |-> 0, end |-> 0]
        ELSE [val |-> IF neg THEN 0 - mag ELSE mag,
              end |-> (p0 - 1) + ni + (IF dot THEN 1 + nf ELSE 0)]

\* A reduction that keeps the smaller value.
max_keeps_smaller(a, b) == IF a > b THEN b ELSE a

\* A reduction that keeps what was received.
max_takes_received(a, b) == b

max(a, b) == IF a > b THEN a ELSE b

\* ------------------------------------------------------------------ state
VARIABLES
    argv_dim,     \* argv[1], the DIMENSION argument, as a string of characters
    g_size,       \* size of MPI_COMM_WORLD
    file_ok,      \* whether fopen(argv[2]) succeeds
    file,         \* contents of the input file, as a string of characters
    fpos,         \* read position of fp in the file (1-based)
    n,            \* perform_distribution: number of values sent so far
    pc,           \* pc[r]: where process r is
    distrib_val,  \* do_work: distrib_val of each worker
    round,        \* do_work: loop index i of each worker
    chan,         \* chan[<<s, d>>]: messages sent by s to d, not yet received
    fanout,       \* the values sent at line 162, in order, with their targets
    output,       \* what the distributor printed on stdout (line 184)
    diag,         \* kinds of diagnostics written so far
    faults,       \* number of MPI calls that may still return an error code
    misused       \* ranks that went on after an MPI call had returned an error

vars == <<argv_dim, g_size, file_ok, file, fpos, n, pc, distrib_val, round,
          chan, fanout, output, diag, faults, misused>>

\* What a `double' holds before anything was stored in it: a number that no
\* file entry and no receive buffer can hold.
NoVal == 0 - 2 * Scale
EOF == "EOF"

Ranks == 0 .. (g_size - 1)
Workers == 1 .. (g_size - 1)

\* ------------------------------------------------------- parse_dimensions
(***************************************************************************)
(* A long has 64 bits (LP64).  Its values do not fit the numbers of this   *)
(* module, so a long is held as a sign and a magnitude of four 16-bit      *)
(* limbs, least significant first.                                         *)
(***************************************************************************)
Limb == 65536

LONG_MAX == [neg |-> FALSE, mag |-> <<Limb - 1, Limb - 1, Limb - 1, (Limb \div 2) - 1>>]
LONG_MIN == [neg |-> TRUE, mag |-> <<0, 0, 0, Limb \div 2>>]

\* The int value v as a long.
Long(v) ==
    IF v >= 0 THEN [neg |-> FALSE, mag |-> <<v % Limb, v \div Limb, 0, 0>>]
    ELSE IF v = INT_MIN THEN [neg |-> TRUE, mag |-> <<0, Limb \div 2, 0, 0>>]
    ELSE [neg |-> TRUE, mag |-> <<(0 - v) % Limb, (0 - v) \div Limb, 0, 0>>]

\* The digits s[p .. p+len-1] as a magnitude; over: it needs more than 64 bits.
RECURSIVE Magnitude(_, _, _)
Magnitude(s, p, len) ==
    IF len = 0 THEN [mag |-> <<0, 0, 0, 0>>, over |-> FALSE]
    ELSE LET m  == Magnitude(s, p, len - 1)
             a0 == 10 * m.mag[1] + DigitVal(s[p + len - 1])
             a1 == 10 * m.mag[2] + (a0 \div Limb)
             a2 == 10 * m.mag[3] + (a1 \div Limb)
             a3 == 10 * m.mag[4] + (a2 \div Limb)
         IN  [mag  |-> <<a0 % Limb, a1 % Limb, a2 % Limb, a3 % Limb>>,
              over |-> m.over \/ a3 >= Limb]

(***************************************************************************)
(* strtol(str, &endptr, 10) on a string: optional sign, then digits.       *)
(* Returns the value, the number of characters converted, and whether      *)
(* errno was set to ERANGE: a value outside long is replaced by LONG_MAX   *)
(* or LONG_MIN.                                                            *)
(***************************************************************************)
strtol(s) ==
    LET neg == Len(s) >= 1 /\ s[1] = "-"
        p0  == IF neg THEN 2 ELSE 1
        ni  == DigitRun(s, p0)
        m   == Magnitude(s, p0, ni)
        out == \/ m.over
               \/ m.mag[4] > Limb \div 2
               \/ m.mag[4] = Limb \div 2
                    /\ (~neg \/ m.mag[1] + m.mag[2] + m.mag[3] > 0)
    IN  IF ni = 0 THEN [val |-> Long(0), end |-> 0, erange |-> FALSE]
        ELSE [val    |-> IF out THEN (IF neg THEN LONG_MIN ELSE LONG_MAX)
                         ELSE [neg |-> neg /\ m.mag # <<0, 0, 0, 0>>,
                               mag |-> m.mag],
              end    |-> (p0 - 1) + ni,
              erange |-> out]

\* (int)result: the low 32 bits of the long, as a signed number.
IntOfLong(l) ==
    LET low == IF l.mag[2] < Limb \div 2
               THEN l.mag[2] * Limb + l.mag[1]
               ELSE (l.mag[2] - Limb) * Limb + l.mag[1]
    IN  IF ~l.neg \/ low = INT_MIN THEN low ELSE 0 - low

\* Lines 79-91.
parse_dimensions(str) ==
    LET r == strtol(str)
    IN  IF r.end = 0 THEN -1
        ELSE IF (r.val = Long(INT_MAX) \/ r.val = Long(INT_MIN)) /\ r.erange
        THEN -1
        ELSE IntOfLong(r.val)

\* DIMENSION arguments: nothing, no number, numbers below and from 2.
DimArgs == {<<>>, <<"x">>, <<"-", "1">>, <<"0">>, <<"1">>, <<"2">>, <<"3">>}

\* DIMENSION arguments around the limits of int and long: 2, 31, 2^31,
\* 2^32 + 1, 2^32 + 2, -(2^32 - 2), 10^20 - 1.
LongArgs ==
    {<<"2">>, <<"3", "1">>,
     <<"2", "1", "4", "7", "4", "8", "3", "6", "4", "8">>,
     <<"4", "2", "9", "4", "9", "6", "7", "2", "9", "7">>,
     <<"4", "2", "9", "4", "9", "6", "7", "2", "9", "8">>,
     <<"-", "4", "2", "9", "4", "9", "6", "7", "2", "9", "4">>,
     <<"9", "9", "9", "9", "9", "9", "9", "9", "9", "9",
       "9", "9", "9", "9", "9", "9", "9", "9", "9", "9">>}

\* line 239, for each of these arguments: what parse_dimensions returns.
DimOf == [str \in DimArgs \cup LongArgs |-> parse_dimensions(str)]

\* the local `dim' of main, the same in every process
Dim == DimOf[argv_dim]

\* The largest dimension for which 2^dim is an int.
MaxIntDim == 30

\* The slots of the cube alone, the distributor's forgotten.
num_expected_slots_cube_only(dim) == {Pow(2, dim)}

(***************************************************************************)
(* 1 + (int)powl(2L, dim), line 249: the values num_expected_slots can     *)
(* take.  From dimension 31 on 2^dim is no int and the conversion is       *)
(* undefined: it gives INT_MIN, or INT_MAX with a sum that wraps.          *)
(***************************************************************************)
num_expected_slots(dim) ==
    IF dim <= MaxIntDim THEN {1 + Pow(2, dim)} ELSE {INT_MIN + 1, INT_MIN}

\* ---------------------------------------------------------- get_neighbors
\* a | (1 << i): bit i of a is set, never cleared.
FlipBit_sets(a, i) ==
    IF (a \div Pow(2, i)) % 2 = 0 THEN a + Pow(2, i) ELSE a

\* a ^ (1 << i) for a >= 0: flip bit i of a
FlipBit(a, i) ==
    IF (a \div Pow(2, i)) % 2 = 0 THEN a + Pow(2, i) ELSE a - Pow(2, i)

\* Neighbors that all lie along dimension 0 of the cube.
get_neighbors_one_axis(rank, dim) ==
    [i \in 0 .. (dim - 1) |-> 1 + FlipBit(rank - 1, 0)]

\* Neighbors taken from the highest dimension of the cube down.
get_neighbors_downwards(rank, dim) ==
    [i \in 0 .. (dim - 1) |-> 1 + FlipBit(rank - 1, dim - 1 - i)]

get_neighbors(rank, dim) == [i \in 0 .. (dim - 1) |-> 1 + FlipBit(rank - 1, i)]

\* ------------------------------------------------------------- transport
\* chan[<<s, d>>] is the sequence of messages sent by s to d and not yet
\* received; MPI_Bsend returns without waiting for the receiver.
Msg(tag, val) == [tag |-> tag, val |-> val]

EmptyChan == [p \in Ranks \X Ranks |-> <<>>]

\* Return codes an MPI call may give: an error code only while faults remain.
ReturnCodes == IF faults > 0 THEN {MPI_SUCCESS, MPI_ERR_OTHER} ELSE {MPI_SUCCESS}

\* Return codes of MPI_Bsend to rank dst: a rank outside the communicator is
\* always an error.
BsendCodes(dst) == IF dst \in Ranks THEN ReturnCodes ELSE {MPI_ERR_OTHER}

\* A send that returns only once dst has posted a receive that matches it.
MPI_Bsend_rendezvous(src, dst) ==
    dst \in Ranks =>
        \/ dst = DISTRIB_RANK /\ pc[dst] = "fan_in"
        \/ dst # DISTRIB_RANK /\ src = DISTRIB_RANK /\ pc[dst] = "recv_initial"
        \/ /\ dst # DISTRIB_RANK /\ src # DISTRIB_RANK
           /\ pc[dst] = "recv"
           /\ get_neighbors(dst, Dim)[round[dst]] = src

\* Whether MPI_Bsend from src to dst can return: a buffered send is local,
\* its completion does not depend on a receive being posted.
MPI_Bsend_returns(src, dst) == TRUE

\* status.MPI_ERROR after MPI_Recv: `status' is an uninitialized local and
\* MPI_Recv does not set the field, so its value is indeterminate.
StatusErrors == {MPI_SUCCESS, MPI_ERR_OTHER}

\* Contents of a receive buffer that MPI_Recv did not fill.
Indeterminate == {0 - Scale, 10 * Scale}

\* Position in q of the first message carrying tag, 0 if there is none.
FirstTagged(q, tag) ==
    IF \E j \in 1 .. Len(q) : q[j].tag = tag
    THEN CHOOSE j \in 1 .. Len(q) :
            q[j].tag = tag /\ \A h \in 1 .. (j - 1) : q[h].tag # tag
    ELSE 0

RemoveAt(q, j) == SubSeq(q, 1, j - 1) \o SubSeq(q, j + 1, Len(q))

\* ------------------------------------------------------------ fatal exits
(***************************************************************************)
(* MPI_Abort(MPI_COMM_WORLD, EXIT_FAILURE); MPI_Finalize(); _exit(): every *)
(* process of the group that has not exited yet is terminated, and what    *)
(* the processes held is gone.                                             *)
(***************************************************************************)
\* An error exit that ends the calling process only (no MPI_Abort).
handle_error_local(r, what) ==
    /\ pc' = [pc EXCEPT ![r] = "aborted"]
    /\ diag' = diag \cup what
    /\ UNCHANGED <<chan, distrib_val, round, n>>

handle_error(r, what) ==
    /\ pc' = [q \in Ranks |-> IF pc[q] = "exited" THEN "exited" ELSE "aborted"]
    /\ diag' = diag \cup what
    /\ chan' = EmptyChan
    /\ distrib_val' = [q \in Ranks |-> NoVal]
    /\ round' = [q \in Ranks |-> 0]
    /\ n' = 0

Aborted == \E r \in Ranks : pc[r] = "aborted"

\* ------------------------------------------------------------------- main
(***************************************************************************)
(* main, lines 235-264, in process r: the dimension and the group size are *)
(* checked; the process then takes its role.                               *)
(***************************************************************************)
main(r) ==
    /\ pc[r] = "main"
    /\ IF Dim < 2
       THEN /\ handle_error(r, {"invalid_dimension"})
            /\ UNCHANGED <<fpos, fanout, output, faults, misused>>
       ELSE \E slots \in num_expected_slots(Dim) :
            IF g_size < slots
            THEN /\ handle_error(r, {"not_enough_slots"})
                 /\ UNCHANGED <<fpos, fanout, output, faults, misused>>
            ELSE /\ pc' = [pc EXCEPT ![r] = IF r = DISTRIB_RANK
                                            THEN "fopen" ELSE "recv_initial"]
                 /\ UNCHANGED <<fpos, n, distrib_val, round, chan, fanout,
                                output, diag, faults, misused>>
    /\ UNCHANGED <<argv_dim, g_size, file_ok, file>>

\* --------------------------------------------------- perform_distribution
\* lines 109-118: fopen
DistOpen ==
    /\ pc[DISTRIB_RANK] = "fopen"
    /\ IF ~file_ok
       THEN /\ handle_error(DISTRIB_RANK, {"cannot_open"})
            /\ UNCHANGED fpos
       ELSE /\ pc' = [pc EXCEPT ![DISTRIB_RANK] = "scan"]
            /\ fpos' = 1
            /\ UNCHANGED <<n, distrib_val, round, chan, diag>>
    /\ UNCHANGED <<argv_dim, g_size, file_ok, file, fanout, output, faults,
                   misused>>

\* Number of consecutive numeric characters of the file from position p.
RECURSIVE NumericRun(_, _)
NumericRun(f, p) ==
    IF p <= Len(f) /\ is_numeric_char(f[p]) THEN 1 + NumericRun(f, p + 1) ELSE 0

(***************************************************************************)
(* Lines 124-130: the inner while loop from file position p.  i characters *)
(* are copied to item_buf; c is the last character fgetc gave (EOF at the  *)
(* end of the file); next is the file position afterwards.                 *)
(***************************************************************************)
ReadItem(f, p) ==
    LET run == NumericRun(f, p)
        i   == IF run < BUFSIZ THEN run ELSE BUFSIZ
    IN  [i        |-> i,
         item_buf |-> SubSeq(f, p, p + i - 1),
         c        |-> IF i = BUFSIZ THEN f[p + i - 1]
                      ELSE IF p + i > Len(f) THEN EOF ELSE f[p + i],
         next     |-> IF i = BUFSIZ THEN p + i
                      ELSE IF p + i > Len(f) THEN Len(f) + 1 ELSE p + i + 1]

\* line 154: *endptr != '\0'
InvalidEntity(item_buf) == strtod(item_buf).end # Len(item_buf)

\* An end of the loop that takes too many values for an error as well.
AfterLoop_exact_count(d) ==
    IF n < g_size - 1 \/ d # {}
    THEN /\ handle_error(DISTRIB_RANK, d \cup {"too_few_values"})
         /\ UNCHANGED <<fanout, faults>>
    ELSE /\ pc' = [pc EXCEPT ![DISTRIB_RANK] = "fan_in"]
         /\ diag' = diag \cup d
         /\ UNCHANGED <<n, distrib_val, round, chan, fanout, faults>>

\* An end of the loop that does not count the values sent.
AfterLoop_no_count(d) ==
    /\ pc' = [pc EXCEPT ![DISTRIB_RANK] = "fan_in"]
    /\ diag' = diag \cup d
    /\ UNCHANGED <<n, distrib_val, round, chan, fanout, faults>>

\* lines 166-176, reached by either break of the loop
AfterLoop(d) ==
    IF n < g_size - 1
    THEN /\ handle_error(DISTRIB_RANK, d \cup {"too_few_values"})
         /\ UNCHANGED <<fanout, faults>>
    ELSE /\ pc' = [pc EXCEPT ![DISTRIB_RANK] = "fan_in"]
         /\ diag' = diag \cup d
         /\ UNCHANGED <<n, distrib_val, round, chan, fanout, faults>>

(***************************************************************************)
(* One iteration of the for (;;) loop, lines 123-164, together with what   *)
(* follows the loop when the iteration leaves it.                          *)
(***************************************************************************)
DistScan ==
    /\ pc[DISTRIB_RANK] = "scan"
    /\ LET it == ReadItem(file, fpos)
       IN  /\ fpos' = it.next
           /\ IF it.c = EOF
              THEN AfterLoop({})
              ELSE IF n >= g_size - 1
              THEN AfterLoop({"too_many_values"})
              ELSE IF it.i >= BUFSIZ - 1
              THEN /\ diag' = diag \cup {"overflowing_entity"}
                   /\ UNCHANGED <<n, pc, distrib_val, round, chan, fanout,
                                  faults>>
              ELSE IF InvalidEntity(it.item_buf)
              THEN /\ diag' = diag \cup {"invalid_entity"}
                   /\ UNCHANGED <<n, pc, distrib_val, round, chan, fanout,
                                  faults>>
              ELSE /\ MPI_Bsend_returns(DISTRIB_RANK, 1 + n)
                   /\ \E rc \in BsendCodes(1 + n) :
                     IF rc # MPI_SUCCESS
                     THEN /\ handle_error(DISTRIB_RANK, {"mpi_error"})
                          /\ faults' = faults - 1
                          /\ UNCHANGED fanout
                     ELSE /\ chan' = [chan EXCEPT ![<<DISTRIB_RANK, 1 + n>>] =
                                 Append(@, Msg(TAG_DATA, strtod(it.item_buf).val))]
                          /\ fanout' = Append(fanout,
                                 [to |-> 1 + n, val |-> strtod(it.item_buf).val])
                          /\ n' = n + 1
                          /\ UNCHANGED <<pc, distrib_val, round, diag, faults>>
    /\ UNCHANGED <<argv_dim, g_size, file_ok, file, output, misused>>

\* A receive that takes messages from any rank, whatever its source argument.
MatchingSources_any(source) == Ranks

\* The ranks whose messages a receive with this source argument matches.
MatchingSources(source) ==
    IF source = MPI_ANY_SOURCE THEN Ranks ELSE {source}

\* A receive that returns at once, with an unfilled buffer, when no message
\* is there.
MPI_Recv_no_wait(q) ==
    IF q = <<>>
    THEN {[ok |-> TRUE, val |-> g, rest |-> q] : g \in Indeterminate}
    ELSE {[ok |-> TRUE, val |-> q[1].val, rest |-> Tail(q)]}

(***************************************************************************)
(* What MPI_Recv from queue q may do: take the first message of q (ok), or *)
(* return an error code, leaving q and the receive buffer as they were.    *)
(***************************************************************************)
MPI_Recv(q) ==
    {[ok |-> TRUE, val |-> q[j].val, rest |-> RemoveAt(q, j)] : j \in {1} \cap DOMAIN q}
    \cup {[ok |-> FALSE, val |-> g, rest |-> q] :
             g \in IF MPI_ERR_OTHER \in ReturnCodes THEN Indeterminate ELSE {}}

\* The same for a receive that only matches messages carrying tag.
MPI_Recv_tag(q, tag) ==
    {[ok |-> TRUE, val |-> q[j].val, rest |-> RemoveAt(q, j)] :
             j \in {FirstTagged(q, tag)} \cap DOMAIN q}
    \cup {[ok |-> FALSE, val |-> g, rest |-> q] :
             g \in IF MPI_ERR_OTHER \in ReturnCodes THEN Indeterminate ELSE {}}

(***************************************************************************)
(* Lines 178-184: the receive of the final result from any source, the     *)
(* check of status.MPI_ERROR and the printf.                               *)
(***************************************************************************)
DistFanIn ==
    /\ pc[DISTRIB_RANK] = "fan_in"
    /\ \E src \in MatchingSources(MPI_ANY_SOURCE) :
         \E o \in MPI_Recv_tag(chan[<<src, DISTRIB_RANK>>], TAG_FINAL_RESULT) :
           \E st \in StatusErrors :
             /\ faults' = IF o.ok THEN faults ELSE faults - 1
             /\ IF st # MPI_SUCCESS
                THEN /\ handle_error(DISTRIB_RANK, {"mpi_error"})
                     /\ UNCHANGED <<output, misused>>
                ELSE /\ chan' = [chan EXCEPT ![<<src, DISTRIB_RANK>>] = o.rest]
                     /\ output' = Append(output, o.val)
                     /\ misused' = IF o.ok THEN misused
                                   ELSE misused \cup {DISTRIB_RANK}
                     /\ pc' = [pc EXCEPT ![DISTRIB_RANK] = "finalize"]
                     /\ UNCHANGED <<n, distrib_val, round, diag>>
    /\ UNCHANGED <<argv_dim, g_size, file_ok, file, fpos, fanout>>

\* ---------------------------------------------------------------- do_work
\* lines 197-201: the receive of the value from the distributor
WorkRecvInitial(r) ==
    /\ r # DISTRIB_RANK
    /\ pc[r] = "recv_initial"
    /\ \E src \in MatchingSources(DISTRIB_RANK) :
        \E o \in MPI_Recv(chan[<<src, r>>]) :
         \E st \in StatusErrors :
           /\ faults' = IF o.ok THEN faults ELSE faults - 1
           /\ IF st # MPI_SUCCESS
              THEN /\ handle_error(r, {"mpi_error"})
                   /\ UNCHANGED misused
              ELSE /\ chan' = [chan EXCEPT ![<<src, r>>] = o.rest]
                   /\ distrib_val' = [distrib_val EXCEPT ![r] = o.val]
                   /\ misused' = IF o.ok THEN misused ELSE misused \cup {r}
                   /\ round' = [round EXCEPT ![r] = 0]
                   /\ pc' = [pc EXCEPT ![r] = IF 0 < Dim THEN "send"
                                                        ELSE "send_final"]
                   /\ UNCHANGED <<n, diag>>
    /\ UNCHANGED <<argv_dim, g_size, file_ok, file, fpos, fanout, output>>

\* lines 210-211: the send of round i
WorkSend(r) ==
    /\ r # DISTRIB_RANK
    /\ pc[r] = "send"
    /\ LET dst == get_neighbors(r, Dim)[round[r]]
       IN  /\ MPI_Bsend_returns(r, dst)
           /\ \E rc \in BsendCodes(dst) :
             IF rc # MPI_SUCCESS
             THEN /\ handle_error(r, {"mpi_error"})
                  /\ faults' = IF dst \in Ranks THEN faults - 1 ELSE faults
             ELSE /\ chan' = [chan EXCEPT ![<<r, dst>>] =
                                 Append(@, Msg(TAG_DATA, distrib_val[r]))]
                  /\ pc' = [pc EXCEPT ![r] = "recv"]
                  /\ UNCHANGED <<n, distrib_val, round, diag, faults>>
    /\ UNCHANGED <<argv_dim, g_size, file_ok, file, fpos, fanout, output,
                   misused>>

\* lines 212-215: the receive of round i, the maximum, and the loop's i++
WorkRecv(r) ==
    /\ r # DISTRIB_RANK
    /\ pc[r] = "recv"
    /\ \E src \in MatchingSources(get_neighbors(r, Dim)[round[r]]) :
           \E o \in MPI_Recv(chan[<<src, r>>]) :
             \E st \in StatusErrors :
               /\ faults' = IF o.ok THEN faults ELSE faults - 1
               /\ IF st # MPI_SUCCESS
                  THEN /\ handle_error(r, {"mpi_error"})
                       /\ UNCHANGED misused
                  ELSE /\ chan' = [chan EXCEPT ![<<src, r>>] = o.rest]
                       /\ distrib_val' =
                            [distrib_val EXCEPT ![r] = max(@, o.val)]
                       /\ misused' = IF o.ok THEN misused ELSE misused \cup {r}
                       /\ round' = [round EXCEPT ![r] = @ + 1]
                       /\ pc' = [pc EXCEPT ![r] =
                                   IF round[r] + 1 < Dim THEN "send"
                                                         ELSE "send_final"]
                       /\ UNCHANGED <<n, diag>>
    /\ UNCHANGED <<argv_dim, g_size, file_ok, file, fpos, fanout, output>>

\* lines 219-220: the send of the final result to the distributor
WorkSendFinal(r) ==
    /\ r # DISTRIB_RANK
    /\ pc[r] = "send_final"
    /\ MPI_Bsend_returns(r, DISTRIB_RANK)
    /\ \E rc \in BsendCodes(DISTRIB_RANK) :
         IF rc # MPI_SUCCESS
         THEN /\ handle_error(r, {"mpi_error"})
              /\ faults' = faults - 1
         ELSE /\ chan' = [chan EXCEPT ![<<r, DISTRIB_RANK>>] =
                             Append(@, Msg(TAG_FINAL_RESULT, distrib_val[r]))]
              /\ pc' = [pc EXCEPT ![r] = "finalize"]
              /\ UNCHANGED <<n, distrib_val, round, diag, faults>>
    /\ UNCHANGED <<argv_dim, g_size, file_ok, file, fpos, fanout, output,
                   misused>>

\* lines 266-267: MPI_Finalize and return EXIT_SUCCESS
Finalize(r) ==
    /\ pc[r] = "finalize"
    /\ pc' = [pc EXCEPT ![r] = "exited"]
    /\ UNCHANGED <<argv_dim, g_size, file_ok, file, fpos, n, distrib_val, round,
                   chan, fanout, output, diag, faults, misused>>

\* ------------------------------------------------------------ initial state
RECURSIVE Flatten(_)
Flatten(ss) == IF ss = <<>> THEN <<>> ELSE Head(ss) \o Flatten(Tail(ss))

\* The state after process launch, for a command line, a group and a file.
Start(dimarg, size, openable, contents, nfaults) ==
    /\ argv_dim = dimarg
    /\ g_size = size
    /\ file_ok = openable
    /\ file = contents
    /\ fpos = 0
    /\ n = 0
    /\ pc = [r \in 0 .. (size - 1) |-> "main"]
    /\ distrib_val = [r \in 0 .. (size - 1) |-> NoVal]
    /\ round = [r \in 0 .. (size - 1) |-> 0]
    /\ chan = [p \in (0 .. (size - 1)) \X (0 .. (size - 1)) |-> <<>>]
    /\ fanout = <<>>
    /\ output = <<>>
    /\ diag = {}
    /\ faults = nfaults
    /\ misused = {}

\* Files of `count' one-digit values in 1..MaxVal, one per line.
RegularFiles(count) ==
    {Flatten([i \in 1 .. count |-> <<DigitChars[v[i] + 1], "\n">>]) :
        v \in [1 .. count -> 1 .. MaxVal]}

\* Scenario A of the specification: 3, 7, 1, 9.
ScenarioA == <<"3", "\n", "7", "\n", "1", "\n", "9", "\n">>

(***************************************************************************)
(* Irregular files: up to MaxItems entries, at most MaxOdd of them other   *)
(* than "V", the i-th being                                                *)
(*   "V"  the number i on a line,                                          *)
(*   "B"  the number i on a line, followed by a blank line,                *)
(*   "M"  the malformed entity 12..3 on a line,                            *)
(*   "U"  (last entry only) the number i with no newline after it.         *)
(***************************************************************************)
Entry(kind, i) ==
    CASE kind = "V" -> <<DigitChars[i + 1], "\n">>
      [] kind = "B" -> <<DigitChars[i + 1], "\n", "\n">>
      [] kind = "M" -> <<"1", "2", ".", ".", "3", "\n">>
      [] kind = "U" -> <<DigitChars[i + 1]>>

EntryKinds(k) ==
    {x \in [1 .. k -> {"V", "B", "M", "U"}] :
        /\ \A i \in 1 .. (k - 1) : x[i] # "U"
        /\ Cardinality({i \in 1 .. k : x[i] # "V"}) <= MaxOdd}

IrregularFiles ==
    UNION {{Flatten([i \in 1 .. k |-> Entry(ks[i], i)]) : ks \in EntryKinds(k)} :
              k \in 0 .. MaxItems}

Init ==
    \E f \in RegularFiles(4) \cup {ScenarioA} : Start(<<"2">>, 5, TRUE, f, 0)

InitLex ==
    \E f \in IrregularFiles : Start(<<"2">>, 5, TRUE, f, 0)

\* The file holding the numbers 1 .. count, one per line.
CountingFile(count) == Flatten([i \in 1 .. count |-> Entry("V", i)])

\* Command lines, group sizes and files, good and bad.
InitCfg ==
    \E d \in DimArgs, size \in 4 .. MaxSize, openable \in BOOLEAN :
        \E count \in {3, size - 1} :
            Start(d, size, openable, CountingFile(count), 0)

\* A run of scenario A in which MaxFaults MPI calls may return an error code.
InitFault == Start(<<"2">>, 5, TRUE, ScenarioA, MaxFaults)

\* Five processes and four values, with such an argument.
InitArg == \E d \in LongArgs : Start(d, 5, TRUE, CountingFile(4), 0)

\* The run of scenario A alone.
InitA == Start(<<"2">>, 5, TRUE, ScenarioA, 0)

Next ==
    \/ \E r \in Ranks : main(r)
    \/ DistOpen
    \/ DistScan
    \/ DistFanIn
    \/ \E r \in Ranks : WorkRecvInitial(r)
    \/ \E r \in Ranks : WorkSend(r)
    \/ \E r \in Ranks : WorkRecv(r)
    \/ \E r \in Ranks : WorkSendFinal(r)
    \/ \E r \in Ranks : Finalize(r)

Spec == Init /\ [][Next]_vars

SpecLex == InitLex /\ [][Next]_vars

SpecCfg == InitCfg /\ [][Next]_vars

SpecFault == InitFault /\ [][Next]_vars

SpecA == InitA /\ [][Next]_vars

SpecArg == InitArg /\ [][Next]_vars

\* ================================================================= claims
\* The numeric entities of a file: its maximal runs of numeric characters.
RECURSIVE Entities(_, _)
Entities(f, p) ==
    IF p > Len(f) THEN <<>>
    ELSE IF ~is_numeric_char(f[p]) THEN Entities(f, p + 1)
    ELSE <<SubSeq(f, p, p + NumericRun(f, p) - 1)>>
            \o Entities(f, p + NumericRun(f, p))

\* The values of the entities of a file that are numbers, in file order.
RECURSIVE ValuesOf(_)
ValuesOf(es) ==
    IF es = <<>> THEN <<>>
    ELSE IF strtod(Head(es)).end = Len(Head(es))
         THEN <<strtod(Head(es)).val>> \o ValuesOf(Tail(es))
         ELSE ValuesOf(Tail(es))

ValidValues(f) == ValuesOf(Entities(f, 1))

\* The largest element of a non-empty finite set of numbers.
Largest(S) == CHOOSE x \in S : \A y \in S : y <= x

\* The values handed out by the distributor so far.
Inputs == {fanout[i].val : i \in 1 .. Len(fanout)}

\* The group is exactly the distributor and the 2^dim workers of the cube.
ExactGroup == Dim >= 2 /\ g_size = 1 + Pow(2, Dim)

\* The run is over and was a full one.
Completed ==
    /\ \A r \in Ranks : pc[r] = "exited"
    /\ Len(output) = 1

C3_AlwaysCompletes ==
    (ExactGroup /\ Len(ValidValues(file)) >= g_size - 1) =>
        /\ ~Aborted
        /\ Completed \/ ENABLED Next

\* The distributor has left the scanning loop for the receive of the result.
InFanIn == pc[DISTRIB_RANK] \in {"fan_in", "finalize", "exited"}

\* The distributor is not, or no longer, reading the file.
ScanOver == pc[DISTRIB_RANK] \notin {"main", "fopen", "scan"}

Smaller(a, b) == IF a < b THEN a ELSE b

(***************************************************************************)
(* C4 as claimed: when the file holds fewer valid values than              *)
(* groupSize - 1, the distributor never gets to the receive of the final   *)
(* result and prints nothing: once it is done with the file the group is   *)
(* aborted.                                                                *)
(***************************************************************************)
C4_TooFewAborts ==
    (Len(ValidValues(file)) < g_size - 1 /\ ScanOver) =>
        /\ pc[DISTRIB_RANK] = "aborted"
        /\ output = <<>>

(***************************************************************************)
(* C5 as claimed: when the file holds more valid values than               *)
(* groupSize - 1, the distributor is not stopped for a wrong number of     *)
(* values, and once it has entered Fan-in it has sent exactly the first    *)
(* groupSize - 1 valid values, the i-th to rank i, and nothing else.       *)
(***************************************************************************)
C5_FirstValuesOnly ==
    Len(ValidValues(file)) > g_size - 1 =>
        /\ "too_few_values" \notin diag
        /\ InFanIn =>
              fanout = [i \in 1 .. (g_size - 1) |->
                           [to |-> i, val |-> ValidValues(file)[i]]]

(***************************************************************************)
(* C6 as claimed: too many values are fatal, so with more valid values in  *)
(* the file than groupSize - 1 the distributor aborts the group and never  *)
(* gets to Fan-in.                                                         *)
(***************************************************************************)
C6_TooManyAborts ==
    Len(ValidValues(file)) > g_size - 1 => ~InFanIn

(***************************************************************************)
(* C6 amended: too many values are not fatal.  When the distributor,       *)
(* having sent groupSize - 1 values, finds a further entity in the file,   *)
(* it only writes a warning: it has not stopped for a wrong number of      *)
(* values, has sent exactly groupSize - 1 values and has gone on to        *)
(* Fan-in; if the group is aborted afterwards, it is for an MPI error.     *)
(***************************************************************************)
C6_TooManyIsAWarning ==
    "too_many_values" \in diag =>
        /\ "too_few_values" \notin diag
        /\ Len(fanout) = g_size - 1
        /\ InFanIn \/ (pc[DISTRIB_RANK] = "aborted" /\ "mpi_error" \in diag)

\* A file with too many valid values: the warning was written and the result
\* printed all the same.
C6_Witness ==
    /\ Len(ValidValues(file)) > g_size - 1
    /\ "too_many_values" \in diag
    /\ Len(output) = 1
    /\ pc[DISTRIB_RANK] = "exited"

(***************************************************************************)
(* C7 as claimed: whatever the file holds, what the distributor sends is   *)
(* exactly the valid values of the file in order, the n-th (from 0) to     *)
(* rank n + 1, up to groupSize - 1 of them; malformed entities consume no  *)
(* rank.                                                                   *)
(***************************************************************************)
C7_NthValidToRankN ==
    /\ \A i \in 1 .. Len(fanout) :
          /\ fanout[i].to = i
          /\ i <= Len(ValidValues(file))
          /\ fanout[i].val = ValidValues(file)[i]
    /\ (InFanIn \/ "too_few_values" \in diag) =>
          Len(fanout) = Smaller(Len(ValidValues(file)), g_size - 1)

\* The kinds of diagnostics written on the fatal paths.
FatalKinds ==
    {"invalid_dimension", "not_enough_slots", "cannot_open", "too_few_values",
     "mpi_error"}

(***************************************************************************)
(* C8: once a process has detected a fatal condition (bad dimension, too   *)
(* small a group, unopenable file, too few values, transport error), or    *)
(* once any process has been terminated by an abort, no process of the     *)
(* group is running or blocked any more, and the run has failed.           *)
(***************************************************************************)
C8_FatalBringsDownGroup ==
    (diag \cap FatalKinds # {} \/ Aborted) =>
        /\ \A r \in Ranks : pc[r] \in {"aborted", "exited"}
        /\ pc[DISTRIB_RANK] = "aborted" \/ output # <<>>
        /\ Aborted
        /\ diag \cap FatalKinds # {}

\* Too few values were found after some had been handed out: all is down.
C8_Witness ==
    /\ "too_few_values" \in diag
    /\ fanout # <<>>
    /\ \A r \in Ranks : pc[r] = "aborted"

(***************************************************************************)
(* C9 as claimed: no process goes on with the protocol after one of its    *)
(* MPI calls has returned an error code.                                   *)
(***************************************************************************)
C9_NoUseAfterFailure == misused = {}

\* The group has fewer than 1 + 2^dim processes (a group size is an int).
TooSmall(dim, size) == dim > MaxIntDim \/ size < 1 + Pow(2, dim)

\* The command line or the group size is not acceptable.
BadConfig == Dim < 2 \/ TooSmall(Dim, g_size)

(***************************************************************************)
(* C10 as claimed: with a dimension below 2 (or none parsed) or a group    *)
(* smaller than 1 + 2^dim no process ever takes a role and no message is   *)
(* ever sent, received or printed: every process is still in main or       *)
(* terminated by the abort, which brings all of them down at once.         *)
(***************************************************************************)
C10_RolesOnlyWhenValid ==
    BadConfig =>
        /\ \A r \in Ranks : pc[r] \in {"main", "aborted"}
        /\ Aborted => \A r \in Ranks : pc[r] = "aborted"
        /\ fanout = <<>> /\ output = <<>> /\ chan = EmptyChan
        /\ diag \subseteq {"invalid_dimension", "not_enough_slots"}

\* A dimension of at least 2 with too small a group: the group is aborted.
C10_Witness ==
    /\ Dim >= 2
    /\ BadConfig
    /\ "not_enough_slots" \in diag
    /\ \A r \in Ranks : pc[r] = "aborted"

\* The workers whose cube index differs from that of w in bits 0 .. k only.
SubCube(w, k) ==
    {u \in 1 .. Pow(2, Dim) :
        (u - 1) \div Pow(2, k + 1) = (w - 1) \div Pow(2, k + 1)}

\* The worker holds a value: it is in do_work past the first receive, or
\* back in main before its return.
InDoWork(w) == pc[w] \in {"send", "recv", "send_final", "finalize"}

(***************************************************************************)
(* C11: with a group of exactly 1 + 2^dim processes, whatever the other    *)
(* workers are doing, a worker that has received its initial value and     *)
(* completed no round holds that value, and a worker whose last completed  *)
(* round is k holds the maximum of the initial values of the workers whose *)
(* cube index differs from its own in bits 0 .. k only, all of which have  *)
(* been handed out.                                                        *)
(***************************************************************************)
C11_RoundInvariant ==
    ExactGroup =>
        \A w \in Workers :
            InDoWork(w) =>
                /\ round[w] \in 0 .. Dim
                /\ round[w] = 0 =>
                      /\ w <= Len(fanout)
                      /\ distrib_val[w] = fanout[w].val
                /\ round[w] > 0 =>
                      /\ \A u \in SubCube(w, round[w] - 1) : u <= Len(fanout)
                      /\ distrib_val[w] =
                            Largest({fanout[u].val :
                                        u \in SubCube(w, round[w] - 1)})

\* A worker has completed round 0 only and holds more than it was given,
\* less than the maximum of the group, while another worker has not even
\* received its initial value.
C11_Witness ==
    /\ ExactGroup
    /\ Len(fanout) = g_size - 1
    /\ \E w \in Workers :
          /\ pc[w] = "send"
          /\ round[w] = 1
          /\ distrib_val[w] > fanout[w].val
          /\ distrib_val[w] < Largest(Inputs)
    /\ \E u \in Workers : pc[u] = "recv_initial"

\* a XOR b on naturals, bit by bit.
RECURSIVE BitXor(_, _)
BitXor(a, b) ==
    IF a = 0 /\ b = 0 THEN 0
    ELSE ((a + b) % 2) + 2 * BitXor(a \div 2, b \div 2)

(***************************************************************************)
(* C12: for every dimension dim, every rank r of 1 .. 2^dim and every k    *)
(* below dim, get_neighbors gives ((r - 1) XOR 2^k) + 1 as k-th neighbor,  *)
(* a rank of 1 .. 2^dim other than r whose own k-th neighbor is r, and two *)
(* distinct ranks never have the same k-th neighbor.  In a run with a      *)
(* group of exactly 1 + 2^dim processes, the partner of a worker in its    *)
(* round k is thus another worker, whose partner of round k it is.         *)
(***************************************************************************)
C12_NeighborInvolution ==
    /\ \A dim \in 0 .. MaxCubeDim :
          LET cube      == 1 .. Pow(2, dim)
              neighbors == [r \in cube |-> get_neighbors(r, dim)]
          IN  \A r \in cube :
                  /\ DOMAIN neighbors[r] = 0 .. (dim - 1)
                  /\ \A k \in 0 .. (dim - 1) :
                        LET nb == neighbors[r][k]
                        IN  /\ nb = BitXor(r - 1, Pow(2, k)) + 1
                            /\ nb \in cube
                            /\ nb # r
                            /\ neighbors[nb][k] = r
                            /\ \A q \in cube :
                                  neighbors[q][k] = nb => q = r
    /\ ExactGroup =>
          \A w \in Workers :
              pc[w] \in {"send", "recv"} =>
                  LET u == get_neighbors(w, Dim)[round[w]]
                  IN  /\ u \in Workers \ {w}
                      /\ get_neighbors(u, Dim)[round[w]] = w

\* Two workers are each other's neighbor of round 1: each has sent its value
\* to the other and waits for the other's.
C12_Witness ==
    \E w \in Workers, u \in Workers :
        /\ w # u
        /\ pc[w] = "recv" /\ round[w] = 1
        /\ pc[u] = "recv" /\ round[u] = 1
        /\ get_neighbors(w, Dim)[1] = u
        /\ get_neighbors(u, Dim)[1] = w
        /\ Len(chan[<<w, u>>]) = 1
        /\ Len(chan[<<u, w>>]) = 1

\* The ranks of the cube: the workers that the reduction is about.
CubeRanks == 1 .. Pow(2, Dim)

(***************************************************************************)
(* C13 as claimed: in every accepted configuration, a group larger than    *)
(* 1 + 2^dim included, the distributor hands one value to each rank of     *)
(* 1 .. groupSize - 1 before it enters Fan-in, and every exchange message  *)
(* that a process in the worker role sends or is about to send is          *)
(* addressed to a rank of the cube 1 .. 2^dim, hence to an existing rank   *)
(* other than the distributor.                                             *)
(***************************************************************************)
C13_ExchangeStaysInCube ==
    ~BadConfig =>
        /\ InFanIn =>
              /\ Len(fanout) = g_size - 1
              /\ \A i \in 1 .. Len(fanout) : fanout[i].to = i
        /\ \A w \in Workers :
              /\ pc[w] = "send" =>
                    /\ get_neighbors(w, Dim)[round[w]] \in CubeRanks
                    /\ get_neighbors(w, Dim)[round[w]] \in Workers
              /\ \A d \in Ranks :
                    \A j \in 1 .. Len(chan[<<w, d>>]) :
                        chan[<<w, d>>][j].tag = TAG_DATA => d \in CubeRanks

\* Workers w and u are each other's partner in the round both are in.
Paired(w, u) ==
    /\ w # u
    /\ pc[w] \in {"send", "recv"} /\ pc[u] \in {"send", "recv"}
    /\ round[w] = round[u]
    /\ get_neighbors(w, Dim)[round[w]] = u
    /\ get_neighbors(u, Dim)[round[u]] = w

\* Every process has returned from main or was terminated by an abort.
AllGone == \A r \in Ranks : pc[r] \in {"exited", "aborted"}

(***************************************************************************)
(* C14: with the buffered send of the program, two workers paired in a     *)
(* round that have both come to the send of that round are never both      *)
(* held in it (each send can return although the partner has posted no     *)
(* receive), and the run never comes to a state in which some process is   *)
(* left and no process can take a step.                                    *)
(***************************************************************************)
C14_BufferedSendNoDeadlock ==
    /\ \A w \in Workers, u \in Workers :
          (Paired(w, u) /\ pc[w] = "send" /\ pc[u] = "send") =>
              ENABLED WorkSend(w) /\ ENABLED WorkSend(u)
    /\ AllGone \/ ENABLED Next

\* A worker's send of round 0 has returned, its message waiting in the
\* buffer, while its partner has not yet sent, let alone posted the receive.
C14_Witness ==
    \E w \in Workers, u \in Workers :
        /\ Paired(w, u)
        /\ round[w] = 0
        /\ pc[w] = "recv"
        /\ pc[u] = "send"
        /\ Len(chan[<<w, u>>]) = 1
        /\ chan[<<u, w>>] = <<>>

\* The step appends a message to what src has sent to dst.
Sends(src, dst) == Len(chan'[<<src, dst>>]) > Len(chan[<<src, dst>>])

\* The message that such a step appends.
Sent(src, dst) == chan'[<<src, dst>>][Len(chan'[<<src, dst>>])]

\* Where a worker may be next: AwaitInitial, then send and receive of the
\* rounds 0, 1, .., dim - 1 in turn, then the final send; an abort anywhere.
\* A worker that has exited has no locals left.
LifecycleOrder(w) ==
    \/ pc'[w] = pc[w] /\ round'[w] = round[w]
    \/ pc'[w] = "aborted"
    \/ pc[w] = "exited" /\ pc'[w] = "exited"
    \/ pc[w] = "main" /\ pc'[w] = "recv_initial"
    \/ pc[w] = "recv_initial" /\ pc'[w] = "send" /\ round'[w] = 0
    \/ pc[w] = "send" /\ pc'[w] = "recv" /\ round'[w] = round[w]
    \/ /\ pc[w] = "recv" /\ round'[w] = round[w] + 1
       /\ pc'[w] = IF round'[w] < Dim THEN "send" ELSE "send_final"
    \/ pc[w] = "send_final" /\ pc'[w] = "finalize" /\ round'[w] = Dim
    \/ pc[w] = "finalize" /\ pc'[w] = "exited"

\* What a worker's step does to messages and to its value.
LifecycleStep(w) ==
    LET nb == 1 + BitXor(w - 1, Pow(2, round[w]))
    IN  /\ \A d \in Ranks :
              Sends(w, d) =>
                  \/ /\ pc[w] = "send" /\ pc'[w] = "recv"
                     /\ d = nb
                     /\ Sent(w, d) = Msg(TAG_DATA, distrib_val[w])
                  \/ /\ pc[w] = "send_final" /\ pc'[w] = "finalize"
                     /\ d = DISTRIB_RANK
                     /\ Sent(w, d) = Msg(TAG_FINAL_RESULT, distrib_val[w])
        /\ (pc[w] = "send" /\ pc'[w] = "recv") => Sends(w, nb)
        /\ (pc[w] = "send_final" /\ pc'[w] = "finalize") =>
              Sends(w, DISTRIB_RANK)
        /\ (pc[w] = "recv" /\ pc'[w] \in {"send", "send_final"}) =>
              /\ chan[<<nb, w>>] # <<>>
              /\ chan'[<<nb, w>>] = Tail(chan[<<nb, w>>])
              /\ distrib_val'[w] = max(distrib_val[w], Head(chan[<<nb, w>>]).val)
        /\ (pc[w] = "recv_initial" /\ pc'[w] = "send") =>
              /\ chan[<<DISTRIB_RANK, w>>] # <<>>
              /\ distrib_val'[w] = Head(chan[<<DISTRIB_RANK, w>>]).val
        /\ (distrib_val'[w] # distrib_val[w] /\ pc'[w] \notin {"aborted", "exited"}) =>
              pc[w] \in {"recv_initial", "recv"} /\ pc'[w] # pc[w]

\* What a worker has sent and not yet had received, by where it is.
LifecycleState(w) ==
    /\ pc[w] \in {"main", "recv_initial"} =>
          \A d \in Ranks : chan[<<w, d>>] = <<>>
    /\ pc[w] \in {"send", "recv"} =>
          /\ round[w] \in 0 .. (Dim - 1)
          /\ chan[<<w, DISTRIB_RANK>>] = <<>>
    /\ pc[w] \in {"send_final", "finalize"} => round[w] = Dim
    /\ Len(chan[<<w, DISTRIB_RANK>>]) <= 1

(***************************************************************************)
(* C15: with a group of exactly 1 + 2^dim processes, every worker, until   *)
(* the group is aborted, goes from the wait for its initial value through  *)
(* the rounds 0, 1, .., dim - 1 in this order to the final send; it sends  *)
(* nothing before it has its initial value; in round k it sends its value  *)
(* to ((rank - 1) XOR 2^k) + 1 and then receives from that rank, which is  *)
(* the one update of its value in the round; its final send is one message *)
(* tagged final result to rank 0, after round dim - 1, with nothing sent   *)
(* after it.                                                               *)
(***************************************************************************)
C15_WorkerLifecycle ==
    /\ [](ExactGroup => \A w \in Workers : LifecycleState(w))
    /\ [][ExactGroup =>
             \A w \in Workers : LifecycleOrder(w) /\ LifecycleStep(w)]_vars

\* A worker has gone through all rounds and sent its final result, which
\* the distributor has not received yet.
C15_Witness ==
    /\ ExactGroup
    /\ \E w \in Workers :
          /\ pc[w] = "finalize"
          /\ round[w] = Dim
          /\ chan[<<w, DISTRIB_RANK>>] =
                <<Msg(TAG_FINAL_RESULT, distrib_val[w])>>
          /\ \A d \in Workers : chan[<<w, d>>] = <<>>

\* The step is the one in which the group is brought down.
AbortStep == ~Aborted /\ Aborted'

\* The step takes a message away from what src has sent to dst.
Consumes(src, dst) ==
    ~AbortStep /\ Len(chan'[<<src, dst>>]) < Len(chan[<<src, dst>>])

\* The step is one of the distributor.
DistributorStep ==
    pc'[DISTRIB_RANK] # pc[DISTRIB_RANK] \/ fpos' # fpos \/ n' # n
        \/ diag' # diag

\* What the distributor's steps do to the messages.
FanInStep ==
    /\ \A w \in Workers :
          Consumes(w, DISTRIB_RANK) =>
              LET q == chan[<<w, DISTRIB_RANK>>]
                  j == FirstTagged(q, TAG_FINAL_RESULT)
              IN  /\ pc[DISTRIB_RANK] = "fan_in"
                  /\ pc'[DISTRIB_RANK] = "finalize"
                  /\ Len(fanout) = g_size - 1
                  /\ j # 0
                  /\ chan'[<<w, DISTRIB_RANK>>] = RemoveAt(q, j)
                  /\ output = <<>>
                  /\ output' = <<q[j].val>>
                  /\ \A p \in Ranks \X Ranks :
                        p # <<w, DISTRIB_RANK>> => chan'[p] = chan[p]
    /\ output' # output => \E w \in Workers : Consumes(w, DISTRIB_RANK)
    /\ (DistributorStep /\ ~AbortStep) =>
          \A s \in Ranks, d \in Workers : ~Consumes(s, d)

\* The final-result messages that nobody has received.
Leftover == {w \in Workers : chan[<<w, DISTRIB_RANK>>] # <<>>}

FanInState ==
    /\ Len(output) <= 1
    /\ InFanIn => Len(fanout) = g_size - 1
    /\ pc[DISTRIB_RANK] \in {"finalize", "exited"} <=>
          (Len(output) = 1 /\ pc[DISTRIB_RANK] # "aborted")
    /\ pc[DISTRIB_RANK] = "finalize" => ENABLED Finalize(DISTRIB_RANK)
    /\ \A w \in Workers :
          /\ pc[w] = "send_final" => ENABLED WorkSendFinal(w)
          /\ pc[w] = "finalize" => ENABLED Finalize(w)
          /\ \A j \in 1 .. Len(chan[<<w, DISTRIB_RANK>>]) :
                chan[<<w, DISTRIB_RANK>>][j].tag = TAG_FINAL_RESULT
    /\ Completed =>
          /\ Cardinality(Leftover) = g_size - 2
          /\ \A w \in Leftover : Len(chan[<<w, DISTRIB_RANK>>]) = 1

(***************************************************************************)
(* C16: the distributor takes a message only in its single receive, made   *)
(* after it has sent all groupSize - 1 values: the first message tagged    *)
(* final result of some worker's queue, whose payload is the one result it *)
(* prints; its steps take no message addressed to a worker; the final      *)
(* sends and returns of the workers and the distributor's return wait for  *)
(* nothing, and at the end of a full run the final results of the other    *)
(* groupSize - 2 workers are still unreceived.                             *)
(***************************************************************************)
C16_SingleFanInReceive ==
    /\ [](~BadConfig => FanInState)
    /\ [][~BadConfig => FanInStep]_vars

\* A full run is over: one result was printed and the final results of the
\* other workers were never received.
C16_Witness ==
    /\ Completed
    /\ Len(fanout) = g_size - 1
    /\ Cardinality(Leftover) = g_size - 2

\* The value worker u holds when it enters its round k, after k reductions.
ValueEntering(u, k) ==
    IF k = 0 THEN fanout[u].val
    ELSE Largest({fanout[v].val : v \in SubCube(u, k - 1)})

\* The round in which workers u and w exchange: the bit in which their cube
\* indices differ (Dim if they differ in more or less than one bit).
RoundOf(u, w) ==
    IF \E k \in 0 .. (Dim - 1) : BitXor(u - 1, w - 1) = Pow(2, k)
    THEN CHOOSE k \in 0 .. (Dim - 1) : BitXor(u - 1, w - 1) = Pow(2, k)
    ELSE Dim

\* Worker w completes a receive in the step.
Receives(w) ==
    /\ pc[w] \in {"recv_initial", "recv"}
    /\ pc'[w] \in {"send", "send_final"}

\* What a receive of worker w takes and from whom.
AlignedReceive(w) ==
    LET from == IF pc[w] = "recv_initial" THEN DISTRIB_RANK
                ELSE 1 + BitXor(w - 1, Pow(2, round[w]))
        got  == IF pc[w] = "recv_initial" THEN fanout[w].val
                ELSE ValueEntering(from, round[w])
    IN  Receives(w) =>
            /\ chan[<<from, w>>] # <<>>
            /\ Head(chan[<<from, w>>]).val = got
            /\ chan'[<<from, w>>] = Tail(chan[<<from, w>>])
            /\ \A s \in Ranks \ {from} : chan'[<<s, w>>] = chan[<<s, w>>]
            /\ distrib_val'[w] = IF pc[w] = "recv_initial" THEN got
                                 ELSE max(distrib_val[w], got)

\* A message waiting between two workers is the one of the round in which
\* they exchange, which its receiver has not completed.
AlignedQueues ==
    \A u \in Workers, w \in Workers :
        chan[<<u, w>>] # <<>> =>
            /\ RoundOf(u, w) < Dim
            /\ chan[<<u, w>>] =
                  <<Msg(TAG_DATA, ValueEntering(u, RoundOf(u, w)))>>
            /\ pc[w] \in {"main", "recv_initial"} \/ round[w] <= RoundOf(u, w)

(***************************************************************************)
(* C17: with a group of exactly 1 + 2^dim processes, in every              *)
(* interleaving, the first receive of a worker takes the distributor's     *)
(* message and its receive of round k takes, from its k-th neighbor, the   *)
(* value that neighbor held when it entered round k; no other message      *)
(* addressed to the worker is touched by the receive, so a message of a    *)
(* neighbor that is ahead waits for the round it belongs to.               *)
(***************************************************************************)
C17_RoundAlignment ==
    /\ [](ExactGroup => AlignedQueues)
    /\ [][ExactGroup => \A w \in Workers : AlignedReceive(w)]_vars

\* A worker has taken its initial value although the message of its round 0
\* neighbor had arrived before, and also the message of its round 1
\* neighbor is there already while it is still in round 0.
C17_Witness ==
    /\ ExactGroup
    /\ \E w \in Workers :
          /\ pc[w] = "send" /\ round[w] = 0
          /\ distrib_val[w] = fanout[w].val
          /\ \A k \in 0 .. 1 :
                /\ chan[<<get_neighbors(w, Dim)[k], w>>] # <<>>
                /\ chan[<<get_neighbors(w, Dim)[k], w>>][1].val # fanout[w].val

\* Worker u has received its initial value.
Started(u) == pc[u] \in {"send", "recv", "send_final", "finalize", "exited"}

\* Worker w is in a receive for which no message is there.
BlockedInReceive(w) ==
    /\ pc[w] \in {"recv_initial", "recv"}
    /\ ~ENABLED WorkRecvInitial(w)
    /\ ~ENABLED WorkRecv(w)

(***************************************************************************)
(* C18: with a group of exactly 1 + 2^dim processes, a worker is past      *)
(* round k only if all workers of its (k+1)-bit sub-cube have received     *)
(* their initial value, so a worker is at or past its final send only if   *)
(* all 2^dim values were handed out and received.  While fewer than 2^dim  *)
(* values have been handed out, no worker is at or past its final send, no *)
(* final result is in flight or printed, and once the distributor has left *)
(* the file with fewer than 2^dim values sent, the group is aborted; the   *)
(* workers that are left when no worker can move are all in a receive.     *)
(***************************************************************************)
C18_FinalNeedsAllStarted ==
    ExactGroup =>
        /\ \A w \in Workers :
              /\ InDoWork(w) =>
                    \A k \in 0 .. (round[w] - 1) :
                        \A u \in SubCube(w, k) : Started(u)
              /\ (pc[w] \in {"send_final", "finalize"}
                    \/ chan[<<w, DISTRIB_RANK>>] # <<>>) =>
                    \A u \in Workers : Started(u)
              /\ pc[w] \in {"send_final", "finalize", "exited"} =>
                    Len(fanout) = g_size - 1
        /\ Len(fanout) < g_size - 1 =>
              /\ output = <<>>
              /\ \A w \in Workers : chan[<<w, DISTRIB_RANK>>] = <<>>
              /\ ScanOver => \A r \in Ranks : pc[r] = "aborted"
              /\ (\A w \in Workers :
                      ~ENABLED main(w) /\ ~ENABLED WorkSend(w)
                        /\ ~ENABLED WorkRecvInitial(w) /\ ~ENABLED WorkRecv(w))
                    => \A w \in Workers :
                          BlockedInReceive(w) \/ pc[w] = "aborted"

\* Three values were handed out to a cube of four workers: every worker is
\* held in a receive, two of them in round 1, and only the distributor,
\* still at the file, can move.
C18_Witness ==
    /\ ExactGroup
    /\ Len(fanout) = g_size - 2
    /\ pc[DISTRIB_RANK] = "scan"
    /\ \A w \in Workers : BlockedInReceive(w)
    /\ \E w \in Workers : pc[w] = "recv" /\ round[w] = 1
    /\ \E w \in Workers : pc[w] = "recv_initial"

\* The ranks to which s has sent a message that was not received yet.
Outstanding(s) == {d \in Ranks : chan[<<s, d>>] # <<>>}

\* A send is the only one of its ordered pair: the distributor's n-th send
\* goes to rank n + 1 and n only grows; a worker sends to another worker in
\* the one round in which the two exchange, to the distributor at its final
\* send, and goes through its rounds and its final send once.
OncePerPair ==
    /\ \A s \in Ranks, d \in Ranks :
          Sends(s, d) =>
              /\ chan[<<s, d>>] = <<>>
              /\ \/ s = DISTRIB_RANK /\ d = n + 1 /\ n' = n + 1
                 \/ /\ s # DISTRIB_RANK /\ d # DISTRIB_RANK
                    /\ pc[s] = "send" /\ pc'[s] = "recv"
                    /\ round[s] = RoundOf(s, d)
                 \/ /\ s # DISTRIB_RANK /\ d = DISTRIB_RANK
                    /\ pc[s] = "send_final" /\ pc'[s] = "finalize"
    /\ n' >= n \/ AbortStep
    /\ \A w \in Workers : LifecycleOrder(w)

(***************************************************************************)
(* C19: with a group of exactly 1 + 2^dim processes, every ordered pair of *)
(* ranks has at most one message sent and not yet received, and carries at *)
(* most one message in the whole run; a worker has at most dim + 1 sends   *)
(* outstanding and the distributor at most groupSize - 1.                  *)
(***************************************************************************)
C19_BoundedBuffering ==
    /\ [](ExactGroup =>
            /\ \A p \in Ranks \X Ranks : Len(chan[p]) <= 1
            /\ \A w \in Workers : Cardinality(Outstanding(w)) <= Dim + 1
            /\ Cardinality(Outstanding(DISTRIB_RANK)) <= g_size - 1)
    /\ [][ExactGroup => OncePerPair]_vars

\* A worker has dim + 1 sends outstanding: none of its neighbors has yet
\* received what it sent, nor has the distributor.
C19_Witness ==
    /\ ExactGroup
    /\ \E w \in Workers :
          /\ pc[w] = "finalize"
          /\ Cardinality(Outstanding(w)) = Dim + 1

\* The digits of a DIMENSION argument after its sign, without leading zeros.
RECURSIVE StripZeros(_)
StripZeros(d) ==
    IF d # <<>> /\ Head(d) = "0" THEN StripZeros(Tail(d)) ELSE d

SignificantDigits(str) ==
    LET p0 == IF Len(str) >= 1 /\ str[1] = "-" THEN 2 ELSE 1
    IN  StripZeros(SubSeq(str, p0, p0 + DigitRun(str, p0) - 1))

\* a <= b for two digit strings of the same length.
RECURSIVE DigitsLeq(_, _)
DigitsLeq(a, b) ==
    \/ a = <<>>
    \/ DigitVal(Head(a)) < DigitVal(Head(b))
    \/ Head(a) = Head(b) /\ DigitsLeq(Tail(a), Tail(b))

\* The decimal value of the argument is one of a 32-bit int.
FitsInt(str) ==
    LET d     == SignificantDigits(str)
        neg   == Len(str) >= 1 /\ str[1] = "-"
        limit == IF neg THEN <<"2", "1", "4", "7", "4", "8", "3", "6", "4", "8">>
                 ELSE <<"2", "1", "4", "7", "4", "8", "3", "6", "4", "7">>
    IN  Len(d) < Len(limit) \/ (Len(d) = Len(limit) /\ DigitsLeq(d, limit))

(***************************************************************************)
(* C20 as claimed: parse_dimensions gives -1 for every argument whose      *)
(* decimal value is not one of a 32-bit int, and with an accepted          *)
(* dimension, those from 31 on included, and a group of fewer than         *)
(* 1 + 2^dim processes no process ever takes a role.                       *)
(***************************************************************************)
C20_ValidationSound ==
    /\ ~FitsInt(argv_dim) => parse_dimensions(argv_dim) = -1
    /\ (Dim >= 2 /\ TooSmall(Dim, g_size)) =>
          \A r \in Ranks : pc[r] \in {"main", "aborted"}

====
